---- MODULE Spec2Model ----
(***************************************************************************)
(* Model of the form-payment integration service: the checkout-session     *)
(* endpoint, the Stripe webhook endpoint and the Google Sheets sink, in    *)
(* the three definitions the sources hold:                                 *)
(*   "server"  src/server.js, lines 1-217 (Express application)            *)
(*   "legacy"  src/server.js, lines 281-485 (second Express application)   *)
(*   "api"     src/api/webhook.js (platform function)                      *)
(***************************************************************************)
EXTENDS Integers, Sequences, FiniteSets, TLC

VARIABLES
  \* per request in flight (functions of the request's slot):
  pc,            \* position of the handler serving the request
  req,           \* the request: endpoint definition, method, content type, signature, body form
  event,         \* the event constructEvent returned (type "none" before verification)
  formData,      \* the Normalized Record built by the handler (empty before)
  now,           \* the service clock reading taken by new Date()
  sink,          \* the storeDataInGoogleSheets call of this request
  response,      \* what the handler sent: status (0 = nothing yet), body, number of sends
  log,           \* console messages of this request
  checkout,      \* body of the create-checkout-session request
  provider,      \* stripe.checkout.sessions.create: calls in this request and params
  \* shared by all requests:
  rows,          \* rows appended to the sheet so far
  requests,      \* requests accepted so far
  completedSeen, \* verified checkout.session.completed deliveries so far
  sinkTrouble,   \* sink calls so far that did not append
  env            \* process.env: credentials JSON and spreadsheet id

vars == <<pc, req, event, formData, now, sink, response, log, rows,
          requests, completedSeen, sinkTrouble, env, checkout, provider>>

---------------------------------------------------------------------------
(* Bounds *)

MaxRequests == 2
MaxMetaKeys == 1

---------------------------------------------------------------------------
(* JavaScript values: strings, numbers (in hundredths, so that x / 100 is  *)
(* exact on the integers the provider sends) and undefined.                *)

Str(s) == [k |-> "string", s |-> s, n |-> 0]
Num(h) == [k |-> "number", s |-> "", n |-> h]
Undefined == [k |-> "undefined", s |-> "", n |-> 0]

\* the integer i as a number
Integer(i) == Num(i * 100)

\* x / 100 on a number
Div100(x) == Num(x.n \div 100)

\* JavaScript truthiness: undefined, '' and 0 are falsy
Truthy(v) == \/ v.k = "string" /\ v.s # ""
             \/ v.k = "number" /\ v.n # 0

\* a || b
OrElse(a, b) == IF Truthy(a) THEN a ELSE b

\* objects are functions from their own keys to values
EmptyObject == [key \in {} |-> Undefined]

\* obj.key
Get(obj, key) == IF key \in DOMAIN obj THEN obj[key] ELSE Undefined

\* { ...a, ...b }: the later spread wins
Spread(a, b) == [key \in DOMAIN a \cup DOMAIN b |->
                   IF key \in DOMAIN b THEN b[key] ELSE a[key]]

\* const { key, ...rest } = obj: the rest
Rest(obj, key) == [x \in DOMAIN obj \ {key} |-> obj[x]]

---------------------------------------------------------------------------
(* The definitions of the service the sources hold, and the inputs *)

Endpoints == {"server", "legacy", "api"}
ExpressEndpoints == {"server", "legacy"}
Methods == {"POST", "GET"}
ContentTypes == {"application/json", "text/plain"}
Completed == "checkout.session.completed"
EventTypes == {Completed, "payment_intent.created"}

\* keys a metadata mapping may carry: the reserved name key, a form field,
\* and the names of the record's own fields
MetaKeys == {"customerName", "notes", "name", "paymentStatus", "paymentAmount"}
\* the value sent under each key: the customer's name, and a text that is
\* none of the values the handler computes
MetaVals == [key \in MetaKeys |-> IF key = "customerName" THEN Str("Ann") ELSE Str("vip")]
MetadataSet == {[key \in ks |-> MetaVals[key]] :
                  ks \in {s \in SUBSET MetaKeys : Cardinality(s) <= MaxMetaKeys}}

CustomerDetails == {[present |-> FALSE, email |-> Undefined],
                    [present |-> TRUE, email |-> Undefined],
                    [present |-> TRUE, email |-> Str("ann@x.com")]}
Amounts == {Integer(2999), Integer(5000)}
Instants == {1, 2}

NoEvent == [type |-> "none", hasMetadata |-> FALSE, metadata |-> EmptyObject,
            customer_details |-> [present |-> FALSE, email |-> Undefined],
            payment_intent |-> Undefined, amount_total |-> Undefined]

\* event.data.object of a checkout.session.completed event; metadata or
\* customer_details may be absent on a malformed event
CompletedEvents ==
  {[type |-> Completed, hasMetadata |-> TRUE, metadata |-> m, customer_details |-> c,
    payment_intent |-> Str("pi_1"), amount_total |-> a] :
      m \in MetadataSet, c \in CustomerDetails, a \in Amounts}
  \cup
  {[type |-> Completed, hasMetadata |-> FALSE, metadata |-> EmptyObject,
    customer_details |-> c, payment_intent |-> Str("pi_1"), amount_total |-> a] :
      c \in CustomerDetails, a \in Amounts}

OtherEvents == {[NoEvent EXCEPT !.type = t] : t \in EventTypes \ {Completed}}

Events == CompletedEvents \cup OtherEvents

CredentialValues == {"malformed", "noKey", "full"}
SheetIds == {"unset", "set"}
AppendOutcomes == {"ok", "authFailure", "transportFailure"}

NoRequest == [endpoint |-> "none", method |-> "none", contentType |-> "none",
              sigValid |-> FALSE, body |-> "none"]
NoResponse == [status |-> 0, body |-> "none", sent |-> 0]
IdleSink == [def |-> "none", state |-> "idle", calls |-> 0, appends |-> 0,
             values |-> <<>>, outcome |-> "none", value |-> "none"]
NoCheckout == [productName |-> Undefined, productPrice |-> Undefined,
               customerName |-> Undefined, customerEmail |-> Undefined,
               metadata |-> EmptyObject]
NoParams == [name |-> Undefined, unit_amount |-> Undefined,
             customer_email |-> Undefined, metadata |-> EmptyObject]
IdleProvider == [state |-> "idle", calls |-> 0, params |-> NoParams]

CompleteBody == [productName |-> Str("Widget"), productPrice |-> Integer(2999),
                 customerName |-> Str("Ann"), customerEmail |-> Str("ann@x.com"),
                 metadata |-> EmptyObject]

\* the complete body, with and without form fields, and the bodies that lack
\* one required field or carry a price of 0
CheckoutBodies ==
  {CompleteBody,
   [CompleteBody EXCEPT !.metadata = [key \in {"customerName", "notes"} |-> Str("vip")]],
   [CompleteBody EXCEPT !.productName = Undefined],
   [CompleteBody EXCEPT !.productPrice = Undefined],
   [CompleteBody EXCEPT !.productPrice = Integer(0)],
   [CompleteBody EXCEPT !.customerEmail = Undefined]}

---------------------------------------------------------------------------
(* Body parsing and signature verification *)

\* express.json() / bodyParser.json(), mounted on every route: a request
\* already parsed is passed on; otherwise req.body is set to {} and, when the
\* content type is JSON, to the parsed object
JsonParser(body, contentType) ==
  IF body \in {"parsed", "raw"} THEN body
  ELSE IF contentType = "application/json" THEN "parsed" ELSE "empty"

\* express.raw({type: 'application/json'}) on the /webhook route: it reads
\* the stream into a Buffer only when no parser has consumed it before
ExpressRaw(body, contentType) ==
  IF body \in {"parsed", "raw"} THEN body
  ELSE IF contentType = "application/json" THEN "raw" ELSE "empty"

\* getRawBody(req): the chunks of the request stream, concatenated
GetRawBody(body) == "raw"

\* the form of the body the handler of each definition hands to the verifier
BodyForVerifier(endpoint, contentType) ==
  IF endpoint \in ExpressEndpoints
    THEN ExpressRaw(JsonParser("stream", contentType), contentType)
    ELSE GetRawBody("stream")

\* (mutant) the body is taken as the event without checking the signature
ConstructEventUnchecked(body, sigValid) == body = "raw"

\* stripe.webhooks.constructEvent(body, sig, secret): it returns the event
\* only for the raw bytes the signature was computed over, and throws otherwise
ConstructEvent(body, sigValid) == body = "raw" /\ sigValid

---------------------------------------------------------------------------
(* Routing *)

\* (mutant) every verified event is handled as a completed checkout
IsCompletedAnyType(ev) == ev.type \in EventTypes

\* event.type === 'checkout.session.completed'
IsCompleted(ev) == ev.type = Completed

---------------------------------------------------------------------------
(* The Event Normalizer *)

\* new Date().toISOString() at instant t: a string that carries the instant
ToISOString(t) == [k |-> "string", s |-> "ISO-8601", n |-> t]

\* const {customerName, ...formMetadata} = session.metadata throws a TypeError
\* on absent metadata, session.customer_details.email on absent customer details
NormalizeThrows(ev) == ~ev.hasMetadata \/ ~ev.customer_details.present

\* the fields the handler sets itself
FixedFields(ev, t) ==
  [name |-> Get(ev.metadata, "customerName"),
   email |-> ev.customer_details.email,
   paymentStatus |-> Str("completed"),
   paymentId |-> ev.payment_intent,
   paymentAmount |-> Div100(ev.amount_total),
   timestamp |-> ToISOString(t)]

\* formData = { name, email, ..., timestamp, ...formMetadata }
BuildFormData(ev, t) == Spread(FixedFields(ev, t), Rest(ev.metadata, "customerName"))

---------------------------------------------------------------------------
(* The Record Sink: storeDataInGoogleSheets *)

\* JSON.parse(process.env.GOOGLE_APPLICATION_CREDENTIALS_JSON || '{}')
CredentialsParse(raw) ==
  CASE raw = "malformed" -> [threw |-> TRUE, client_email |-> FALSE, private_key |-> FALSE]
    [] raw = "noKey" -> [threw |-> FALSE, client_email |-> TRUE, private_key |-> FALSE]
    [] OTHER -> [threw |-> FALSE, client_email |-> TRUE, private_key |-> TRUE]

\* the positional row of each definition
RowValues(endpoint, fd) ==
  LET head == <<Get(fd, "timestamp"), Get(fd, "name"), Get(fd, "email"),
                Get(fd, "paymentStatus"), Get(fd, "paymentId"), Get(fd, "paymentAmount"),
                OrElse(Get(fd, "preferences"), Str("")), OrElse(Get(fd, "notes"), Str(""))>>
  IN IF endpoint = "legacy" THEN head
     ELSE head \o <<OrElse(Get(fd, "age"), Str("")),
                    OrElse(Get(fd, "primaryConcern"), Str("")),
                    OrElse(Get(fd, "additionalConcerns"), Str("")),
                    OrElse(Get(fd, "goals"), Str("")),
                    OrElse(Get(fd, "photoCount"), Str(""))>>

\* (mutant) missing configuration throws instead of returning
SinkBeginStrict(endpoint, e) ==
  IF endpoint = "legacy" THEN "authenticating"
  ELSE LET c == CredentialsParse(e.credentials)
       IN IF c.threw \/ ~c.client_email \/ ~c.private_key \/ e.spreadsheetId = "unset"
            THEN "thrown"
            ELSE "pending"

\* the part of the call that runs before its first await: "thrown" when
\* JSON.parse throws (caught, logged, rethrown), "returned" on the early
\* returns for missing credentials or spreadsheet id, "pending" once the
\* request to the sheet is on its way; the call of server.js:400 first awaits
\* auth.getClient() ("authenticating") and builds no row before that settles
SinkBegin(endpoint, e) ==
  IF endpoint = "legacy" THEN "authenticating"
  ELSE LET c == CredentialsParse(e.credentials)
       IN IF c.threw THEN "thrown"
          ELSE IF ~c.client_email \/ ~c.private_key THEN "returned"
          ELSE IF e.spreadsheetId = "unset" THEN "returned"
          ELSE "pending"

\* the console message of the part before the first await
SinkBeginLog(endpoint, e) ==
  IF endpoint = "legacy" THEN {}
  ELSE LET c == CredentialsParse(e.credentials)
       IN IF c.threw THEN {"Error storing data in Google Sheets"}
          ELSE IF ~c.client_email \/ ~c.private_key
            THEN {"Missing or invalid Google credentials"}
          ELSE IF e.spreadsheetId = "unset" THEN {"Missing spreadsheet ID"}
          ELSE {}

\* the call as it stands at its first await, early return or throw
StoreDataInGoogleSheets(endpoint, fd, e, before) ==
  LET st == SinkBegin(endpoint, e)
  IN [def |-> endpoint, state |-> st, calls |-> before.calls + 1,
      appends |-> IF st = "pending" THEN before.appends + 1 ELSE before.appends,
      values |-> IF st = "pending" THEN RowValues(endpoint, fd) ELSE <<>>,
      outcome |-> "none",
      value |-> IF st = "returned" THEN "undefined" ELSE "none"]

\* how the call settles once the request to the sheet has ended: the catch
\* block of server.js:198 and webhook.js:80 rethrows, that of server.js:436
\* only logs
SinkSettle(endpoint, outcome) ==
  IF outcome = "ok" THEN "returned"
  ELSE IF endpoint = "legacy" THEN "returned" ELSE "thrown"

\* the value a call returns: response.data after an append in server.js:197
\* and webhook.js:79, undefined otherwise
SinkValue(endpoint, state, appended) ==
  IF state = "returned" /\ appended /\ endpoint # "legacy" THEN "response.data"
  ELSE IF state = "returned" THEN "undefined"
  ELSE "none"

\* (mutant) no try block around the call in any definition
AfterSinkNoCatch(endpoint, state) ==
  IF state = "thrown" THEN "crash" ELSE "acknowledge"

\* what the handler does once the awaited call has settled: server.js:123
\* and webhook.js:134 catch and log, server.js:389 has no try around the call
AfterSink(endpoint, state) ==
  IF state = "thrown" /\ endpoint = "legacy" THEN "crash" ELSE "acknowledge"

---------------------------------------------------------------------------
(* The Session Creation Endpoint *)

\* server.js:40 answers 400 when a required field is falsy; the handler of
\* server.js:304 has no such test
CheckoutRejects(endpoint, body) ==
  /\ endpoint = "server"
  /\ ~Truthy(body.productName) \/ ~Truthy(body.productPrice) \/ ~Truthy(body.customerEmail)

\* the argument of stripe.checkout.sessions.create
SessionParams(body) ==
  [name |-> body.productName,
   unit_amount |-> body.productPrice,
   customer_email |-> body.customerEmail,
   metadata |-> Spread([key \in {"customerName"} |-> body.customerName], body.metadata)]

---------------------------------------------------------------------------
(* State machine *)

\* the requests in flight: the handlers are async functions, so a request
\* is taken while another is suspended at an await
Slots == {1, 2}

\* the inputs a request draws from: the first slot takes the whole range, the
\* request that overlaps it one input for each path through the handlers
OverlapEvents ==
  {ev \in Events :
     \/ ev.type # Completed
     \/ /\ ev.hasMetadata /\ ev.metadata = [key \in {"notes"} |-> Str("vip")]
        /\ ev.customer_details = [present |-> TRUE, email |-> Str("ann@x.com")]
        /\ ev.amount_total = Integer(5000)
     \/ /\ ~ev.hasMetadata /\ ~ev.customer_details.present
        /\ ev.amount_total = Integer(5000)}

EventsOf(r) == IF r = 1 THEN Events ELSE OverlapEvents
InstantsOf(r) == {t \in Instants : t = r}
ContentTypesOf(r) == IF r = 1 THEN ContentTypes ELSE {"application/json"}
CheckoutBodiesOf(r) ==
  IF r = 1 THEN CheckoutBodies
  ELSE {CompleteBody, [CompleteBody EXCEPT !.customerEmail = Undefined]}

AtRest == {"Idle", "Acknowledged", "Rejected", "Crashed", "MethodNotAllowed",
           "CheckoutDone"}

\* res.status(code).send/json/end(body)
Send(res, code, body) == [status |-> code, body |-> body, sent |-> res.sent + 1]

Init ==
  /\ pc = [r \in Slots |-> "Idle"]
  /\ req = [r \in Slots |-> NoRequest]
  /\ event = [r \in Slots |-> NoEvent]
  /\ formData = [r \in Slots |-> EmptyObject]
  /\ now = [r \in Slots |-> 0]
  /\ sink = [r \in Slots |-> IdleSink]
  /\ response = [r \in Slots |-> NoResponse]
  /\ log = [r \in Slots |-> {}]
  /\ checkout = [r \in Slots |-> NoCheckout]
  /\ provider = [r \in Slots |-> IdleProvider]
  /\ rows = 0
  /\ requests = 0
  /\ completedSeen = 0
  /\ sinkTrouble = 0
  /\ env \in [credentials : CredentialValues, spreadsheetId : SheetIds]

\* a new request finds nothing of the one served before: the handlers keep
\* no state of their own
Fresh(r) ==
  /\ event' = [event EXCEPT ![r] = NoEvent]
  /\ formData' = [formData EXCEPT ![r] = EmptyObject]
  /\ now' = [now EXCEPT ![r] = 0]
  /\ sink' = [sink EXCEPT ![r] = IdleSink]

\* POST /webhook (Express routes only POST to the handler; the platform
\* function is called for every method)
Deliver(r, endpoint, method, contentType, sigValid) ==
  /\ pc[r] \in AtRest
  /\ requests < MaxRequests
  /\ endpoint \in ExpressEndpoints => method = "POST"
  /\ req' = [req EXCEPT ![r] =
               [endpoint |-> endpoint, method |-> method, contentType |-> contentType,
                sigValid |-> sigValid, body |-> "stream"]]
  /\ pc' = [pc EXCEPT ![r] = "ReceivingBody"]
  /\ requests' = requests + 1
  /\ Fresh(r)
  /\ response' = [response EXCEPT ![r] = NoResponse]
  /\ log' = [log EXCEPT ![r] = {}]
  /\ checkout' = [checkout EXCEPT ![r] = NoCheckout]
  /\ provider' = [provider EXCEPT ![r] = IdleProvider]
  /\ UNCHANGED <<rows, completedSeen, sinkTrouble, env>>

\* webhook.js:87
RefuseMethod(r) ==
  /\ pc[r] = "ReceivingBody"
  /\ req[r].endpoint = "api" /\ req[r].method # "POST"
  /\ response' = [response EXCEPT ![r] = Send(@, 405, "Method Not Allowed")]
  /\ pc' = [pc EXCEPT ![r] = "MethodNotAllowed"]
  /\ UNCHANGED <<req, event, formData, now, sink, log, rows, requests,
                 completedSeen, sinkTrouble, env, checkout, provider>>

\* the body reaches the handler through the parsers mounted before it
ReceiveBody(r) ==
  /\ pc[r] = "ReceivingBody"
  /\ req[r].endpoint = "api" => req[r].method = "POST"
  /\ req' = [req EXCEPT ![r].body = BodyForVerifier(req[r].endpoint, req[r].contentType)]
  /\ pc' = [pc EXCEPT ![r] = "Verifying"]
  /\ UNCHANGED <<event, formData, now, sink, response, log, rows, requests,
                 completedSeen, sinkTrouble, env, checkout, provider>>

\* constructEvent throws: 400, and the handler returns
Reject(r) ==
  /\ pc[r] = "Verifying"
  /\ ~ConstructEvent(req[r].body, req[r].sigValid)
  /\ response' = [response EXCEPT ![r] = Send(@, 400, "Webhook Error")]
  /\ log' = [log EXCEPT ![r] = @ \cup {"Webhook signature verification failed"}]
  /\ pc' = [pc EXCEPT ![r] = "Rejected"]
  /\ UNCHANGED <<req, event, formData, now, sink, rows, requests,
                 completedSeen, sinkTrouble, env, checkout, provider>>

\* constructEvent returns the event the provider signed
Accept(r, ev) ==
  /\ pc[r] = "Verifying"
  /\ ConstructEvent(req[r].body, req[r].sigValid)
  /\ event' = [event EXCEPT ![r] = ev]
  /\ log' = [log EXCEPT ![r] = IF req[r].endpoint = "legacy" THEN @
                               ELSE @ \cup {"Webhook received"}]
  /\ completedSeen' = IF ev.type = Completed THEN completedSeen + 1 ELSE completedSeen
  /\ pc' = [pc EXCEPT ![r] = "Routing"]
  /\ UNCHANGED <<req, formData, now, sink, response, rows, requests,
                 sinkTrouble, env, checkout, provider>>

\* any other event type: straight to the acknowledgment
Ignore(r) ==
  /\ pc[r] = "Routing"
  /\ ~IsCompleted(event[r])
  /\ response' = [response EXCEPT ![r] = Send(@, 200, "received:true")]
  /\ pc' = [pc EXCEPT ![r] = "Acknowledged"]
  /\ UNCHANGED <<req, event, formData, now, sink, log, rows, requests,
                 completedSeen, sinkTrouble, env, checkout, provider>>

\* the destructuring or the email read throws outside every try block: the
\* handler's promise rejects and the handler sends nothing
NormalizeFails(r) ==
  /\ pc[r] = "Routing"
  /\ IsCompleted(event[r])
  /\ NormalizeThrows(event[r])
  /\ pc' = [pc EXCEPT ![r] = "Crashed"]
  /\ UNCHANGED <<req, event, formData, now, sink, response, log, rows,
                 requests, completedSeen, sinkTrouble, env, checkout, provider>>

\* the record is built and storeDataInGoogleSheets is called; the call runs
\* to its first await (or to its early return or throw)
Persist(r, t) ==
  /\ pc[r] = "Routing"
  /\ IsCompleted(event[r])
  /\ ~NormalizeThrows(event[r])
  /\ now' = [now EXCEPT ![r] = t]
  /\ formData' = [formData EXCEPT ![r] = BuildFormData(event[r], t)]
  /\ sink' = [sink EXCEPT ![r] =
                StoreDataInGoogleSheets(req[r].endpoint, BuildFormData(event[r], t), env, @)]
  /\ sinkTrouble' = IF sink'[r].state \in {"returned", "thrown"}
                      THEN sinkTrouble + 1 ELSE sinkTrouble
  /\ log' = [log EXCEPT ![r] = @ \cup SinkBeginLog(req[r].endpoint, env)
                                 \cup (IF req[r].endpoint = "legacy" THEN {}
                                       ELSE {"Processing completed payment"})]
  /\ pc' = [pc EXCEPT ![r] = "Persisting"]
  /\ UNCHANGED <<req, event, response, rows, requests, completedSeen, env, checkout,
                 provider>>

\* what the call of server.js:400 awaits first settles: auth.getClient()
\* resolves and the row is built and sent (server.js:413-428), or it rejects
\* and the catch block logs
ClientSettled(call, fd, outcome) ==
  IF outcome = "ok"
    THEN [call EXCEPT !.state = "pending", !.appends = @ + 1,
                      !.values = RowValues(call.def, fd)]
    ELSE [call EXCEPT !.state = SinkSettle(call.def, outcome), !.outcome = outcome,
                      !.value = SinkValue(call.def, SinkSettle(call.def, outcome), FALSE)]

\* the request to the sheet ends: the row is appended, or authentication or
\* the transport failed
AppendSettled(call, outcome) ==
  [call EXCEPT !.state = SinkSettle(call.def, outcome), !.outcome = outcome,
               !.value = SinkValue(call.def, SinkSettle(call.def, outcome),
                                   outcome = "ok")]

\* the promise a sink call is suspended on settles
AppendSettle(r, outcome) ==
  /\ sink[r].state \in {"authenticating", "pending"}
  /\ IF sink[r].state = "authenticating"
       THEN /\ outcome \in {"ok", "authFailure"}
            /\ sink' = [sink EXCEPT ![r] = ClientSettled(@, formData[r], outcome)]
            /\ rows' = rows
            /\ log' = [log EXCEPT ![r] = IF outcome = "ok" THEN @
                          ELSE @ \cup {"Error storing data in Google Sheets"}]
       ELSE /\ sink' = [sink EXCEPT ![r] = AppendSettled(@, outcome)]
            /\ rows' = IF outcome = "ok" THEN rows + 1 ELSE rows
            /\ log' = [log EXCEPT ![r] = @ \cup
                          (IF outcome = "ok"
                             THEN {"Data stored in Google Sheets successfully"}
                             ELSE {"Error storing data in Google Sheets"})]
  /\ sinkTrouble' = IF outcome = "ok" THEN sinkTrouble ELSE sinkTrouble + 1
  /\ UNCHANGED <<pc, req, event, formData, now, response, requests,
                 completedSeen, env, checkout, provider>>

\* the awaited call has settled: the handler goes on to res.status(200)
Acknowledge(r) ==
  /\ pc[r] = "Persisting"
  /\ sink[r].state \in {"returned", "thrown"}
  /\ IF AfterSink(req[r].endpoint, sink[r].state) = "acknowledge"
       THEN /\ response' = [response EXCEPT ![r] = Send(@, 200, "received:true")]
            /\ log' = [log EXCEPT ![r] =
                         IF req[r].endpoint = "legacy" THEN @
                         ELSE IF sink[r].state = "thrown"
                           THEN @ \cup {"Error processing payment data"}
                           ELSE @ \cup {"Payment data successfully processed"}]
            /\ pc' = [pc EXCEPT ![r] = "Acknowledged"]
       ELSE /\ pc' = [pc EXCEPT ![r] = "Crashed"]
            /\ UNCHANGED <<response, log>>
  /\ UNCHANGED <<req, event, formData, now, sink, rows, requests,
                 completedSeen, sinkTrouble, env, checkout, provider>>

\* POST /create-checkout-session
RequestCheckout(r, endpoint, body) ==
  /\ pc[r] \in AtRest
  /\ requests < MaxRequests
  /\ endpoint \in ExpressEndpoints
  /\ req' = [req EXCEPT ![r] =
               [NoRequest EXCEPT !.endpoint = endpoint, !.method = "POST",
                                 !.contentType = "application/json", !.body = "parsed"]]
  /\ checkout' = [checkout EXCEPT ![r] = body]
  /\ requests' = requests + 1
  /\ Fresh(r)
  /\ IF CheckoutRejects(endpoint, body)
       THEN /\ response' = [response EXCEPT ![r] =
                              Send(NoResponse, 400, "Missing required fields")]
            /\ provider' = [provider EXCEPT ![r] = IdleProvider]
            /\ pc' = [pc EXCEPT ![r] = "CheckoutDone"]
       ELSE /\ response' = [response EXCEPT ![r] = NoResponse]
            /\ provider' = [provider EXCEPT ![r] =
                              [state |-> "pending", calls |-> 1,
                               params |-> SessionParams(body)]]
            /\ pc' = [pc EXCEPT ![r] = "CreatingSession"]
  /\ log' = [log EXCEPT ![r] = IF endpoint = "server"
                                 THEN {"Received checkout request"} ELSE {}]
  /\ UNCHANGED <<rows, completedSeen, sinkTrouble, env>>

\* the provider answers: the session's url, or an error
SessionSettle(r, ok) ==
  /\ pc[r] = "CreatingSession"
  /\ provider' = [provider EXCEPT ![r].state = "settled"]
  /\ response' = [response EXCEPT ![r] = IF ok THEN Send(@, 200, "checkoutUrl")
                                         ELSE Send(@, 500, "error")]
  /\ log' = [log EXCEPT ![r] =
               IF ok THEN (IF req[r].endpoint = "server"
                             THEN @ \cup {"Checkout session created"} ELSE @)
               ELSE @ \cup {"Error creating checkout session"}]
  /\ pc' = [pc EXCEPT ![r] = "CheckoutDone"]
  /\ UNCHANGED <<req, event, formData, now, sink, rows, requests,
                 completedSeen, sinkTrouble, env, checkout>>

\* storeDataInGoogleSheets called on its own with a record
CallSink(r, endpoint, fd) ==
  /\ pc[r] = "Idle"
  /\ sink[r].state \notin {"authenticating", "pending"}
  /\ requests < MaxRequests
  /\ requests' = requests + 1
  /\ formData' = [formData EXCEPT ![r] = fd]
  /\ sink' = [sink EXCEPT ![r] = StoreDataInGoogleSheets(endpoint, fd, env, IdleSink)]
  /\ sinkTrouble' = IF sink'[r].state \in {"returned", "thrown"}
                      THEN sinkTrouble + 1 ELSE sinkTrouble
  /\ log' = [log EXCEPT ![r] = SinkBeginLog(endpoint, env)]
  /\ UNCHANGED <<pc, req, event, now, response, rows, completedSeen, env, checkout,
                 provider>>

Next ==
  \/ \E r \in Slots, endpoint \in Endpoints, method \in Methods, sigValid \in BOOLEAN :
        \E contentType \in ContentTypesOf(r) :
          Deliver(r, endpoint, method, contentType, sigValid)
  \/ \E r \in Slots : RefuseMethod(r)
  \/ \E r \in Slots : ReceiveBody(r)
  \/ \E r \in Slots : Reject(r)
  \/ \E r \in Slots : \E ev \in EventsOf(r) : Accept(r, ev)
  \/ \E r \in Slots : Ignore(r)
  \/ \E r \in Slots : NormalizeFails(r)
  \/ \E r \in Slots : \E t \in InstantsOf(r) : Persist(r, t)
  \/ \E r \in Slots, outcome \in AppendOutcomes : AppendSettle(r, outcome)
  \/ \E r \in Slots : Acknowledge(r)
  \/ \E r \in Slots, endpoint \in ExpressEndpoints :
        \E body \in CheckoutBodiesOf(r) : RequestCheckout(r, endpoint, body)
  \/ \E r \in Slots, ok \in BOOLEAN : SessionSettle(r, ok)

Spec == Init /\ [][Next]_vars

\* the records the sink is called with on its own
SinkRecords(r) ==
  {BuildFormData(ev, 2) : ev \in {e \in EventsOf(r) : IsCompleted(e) /\ ~NormalizeThrows(e)}}

SinkNext ==
  \/ \E r \in Slots, endpoint \in Endpoints :
        \E fd \in SinkRecords(r) : CallSink(r, endpoint, fd)
  \/ \E r \in Slots, outcome \in AppendOutcomes : AppendSettle(r, outcome)

SinkSpec == Init /\ [][SinkNext]_vars

---------------------------------------------------------------------------
(* Properties *)

\* the request is a webhook delivery past its verification step
PastVerification(r) ==
  pc[r] \in {"Routing", "Persisting", "Acknowledged", "Rejected", "Crashed"}

\* the delivery was verified: constructEvent returned an event
Verified(r) == event[r].type # "none"

Acknowledgment == [status |-> 200, body |-> "received:true", sent |-> 1]

\* C1: a delivery with a tampered body or a wrong signature is answered 400
\* with an error message, goes no further than Rejected, and neither the
\* normalizer nor the sink runs for it
C1_RejectedWithoutSinkWrite ==
  \A r \in Slots :
    /\ (PastVerification(r) /\ ~req[r].sigValid) => pc[r] = "Rejected"
    /\ pc[r] = "Rejected" =>
         /\ response[r] = [status |-> 400, body |-> "Webhook Error", sent |-> 1]
         /\ ~Verified(r)
         /\ formData[r] = EmptyObject
         /\ sink[r] = IdleSink

C1_Witness ==
  \E r \in Slots :
    /\ pc[r] = "Rejected" /\ ~req[r].sigValid /\ req[r].body = "raw"
    /\ response[r].status = 400

\* C2: the verifier is handed the raw request bytes, so that a delivery the
\* provider signed correctly (content type application/json) is never rejected
C2_VerifierGetsRawBody ==
  \A r \in Slots :
    req[r].contentType = "application/json" =>
      /\ (pc[r] = "Verifying" \/ PastVerification(r)) => req[r].body = "raw"
      /\ pc[r] = "Rejected" => ~req[r].sigValid

\* C3: once the sink call of a verified, well-formed completed event has
\* thrown, the only response is 200 {received:true}, and the handler reaches it
C3_SinkErrorStillAcknowledged ==
  \A r \in Slots :
    sink[r].state = "thrown" =>
      /\ response[r].status \in {0, 200}
      /\ pc[r] \in AtRest => pc[r] = "Acknowledged" /\ response[r] = Acknowledgment

C3_Witness ==
  \E r \in Slots :
    /\ pc[r] = "Acknowledged" /\ sink[r].state = "thrown"
    /\ response[r] = Acknowledgment /\ sink[r].outcome = "transportFailure"

\* C4: a verified delivery never comes to rest anywhere but Acknowledged with
\* 200 {received:true}, also when its completed event lacks metadata,
\* customer details or the customer email
C4_VerifiedAlwaysAcknowledged ==
  \A r \in Slots :
    (Verified(r) /\ pc[r] \in AtRest) =>
      pc[r] = "Acknowledged" /\ response[r] = Acknowledgment

\* C5: a verified event of any other type than checkout.session.completed
\* never reaches the sink and is answered 200 {received:true}
C5_OtherTypesIgnored ==
  \A r \in Slots :
    (Verified(r) /\ event[r].type # Completed) =>
      /\ sink[r] = IdleSink
      /\ formData[r] = EmptyObject
      /\ response[r].status \in {0, 200}
      /\ pc[r] \in AtRest => pc[r] = "Acknowledged" /\ response[r] = Acknowledgment

C5_Witness ==
  \E r \in Slots :
    /\ pc[r] = "Acknowledged" /\ event[r].type = "payment_intent.created"
    /\ response[r] = Acknowledgment /\ sink[r].calls = 0

\* the create-checkout-session request lacks a required field
MissingRequiredField(r) ==
  \/ checkout[r].productName = Undefined
  \/ checkout[r].productPrice = Undefined
  \/ checkout[r].customerEmail = Undefined

\* C6: a create-checkout-session request that lacks productName, productPrice
\* or customerEmail is answered 400 and the provider is never called
C6_MissingFieldsRejected ==
  \A r \in Slots :
    (pc[r] \in {"CreatingSession", "CheckoutDone"} /\ MissingRequiredField(r)) =>
      /\ provider[r].calls = 0
      /\ pc[r] = "CheckoutDone" => response[r].status = 400

\* the handler has built a record for a verified completed event
RecordBuilt(r) == pc[r] \in {"Persisting", "Acknowledged"} /\ sink[r].calls > 0

\* C7: the record handed to the sink has paymentAmount = amount_total / 100,
\* name = metadata.customerName, no field customerName, and every other
\* metadata key with its value unchanged
C7_RecordMapping ==
  \A r \in Slots :
    RecordBuilt(r) =>
      /\ Get(formData[r], "paymentAmount").k = "number"
      /\ Get(formData[r], "paymentAmount").n * 100 = event[r].amount_total.n
      /\ Get(formData[r], "name") = Get(event[r].metadata, "customerName")
      /\ "customerName" \notin DOMAIN formData[r]
      /\ \A key \in DOMAIN event[r].metadata \ {"customerName"} :
           key \in DOMAIN formData[r] /\ formData[r][key] = event[r].metadata[key]

\* C8: whatever the metadata holds, the record's paymentStatus is 'completed'
\* and its email, paymentId, paymentAmount and timestamp are those of the
\* customer details, the payment intent, amount_total and the clock
C8_FixedFieldsNotReplaced ==
  \A r \in Slots :
    RecordBuilt(r) =>
      /\ Get(formData[r], "paymentStatus") = Str("completed")
      /\ Get(formData[r], "email") = event[r].customer_details.email
      /\ Get(formData[r], "paymentId") = event[r].payment_intent
      /\ Get(formData[r], "paymentAmount").k = "number"
      /\ Get(formData[r], "paymentAmount").n * 100 = event[r].amount_total.n
      /\ Get(formData[r], "timestamp") = ToISOString(now[r])

\* a call of storeDataInGoogleSheets has ended
SinkEnded(r) == sink[r].state \in {"returned", "thrown"}

\* the call appended a row
SinkAppended(r) == sink[r].outcome = "ok"

\* C9 (as stated): a call that does not append a row never returns normally
C9_NoAppendNeverReturns ==
  \A r \in Slots : (SinkEnded(r) /\ ~SinkAppended(r)) => sink[r].state = "thrown"

\* C9 (amended): in server.js:142 and webhook.js:24 a call that does not
\* append a row throws when the credential JSON is malformed or the append
\* fails on authentication or transport, and returns normally (a logged
\* no-op, nothing sent to the sheet) when the credential is incomplete or the
\* spreadsheet id is absent; the definition of server.js:400 returns normally
\* on every failure, and sends nothing to the sheet when it is the client
\* that cannot be obtained
C9_SinkFailurePolicy ==
  \A r \in Slots :
    (SinkEnded(r) /\ ~SinkAppended(r)) =>
      /\ sink[r].def = "legacy" =>
           /\ sink[r].state = "returned" /\ sink[r].value = "undefined"
           /\ sink[r].outcome = "transportFailure" => sink[r].appends = 1
           /\ sink[r].appends = 0 =>
                sink[r].outcome = "authFailure" /\ sink[r].values = <<>>
      /\ sink[r].def # "legacy" =>
           /\ env.credentials = "malformed" =>
                sink[r].state = "thrown" /\ sink[r].appends = 0
           /\ (env.credentials = "noKey" \/
               (env.credentials = "full" /\ env.spreadsheetId = "unset")) =>
                 /\ sink[r].state = "returned" /\ sink[r].appends = 0
                 /\ sink[r].value = "undefined"
           /\ sink[r].outcome \in {"authFailure", "transportFailure"} =>
                 sink[r].state = "thrown"

C9_Witness ==
  \E r \in Slots :
    /\ sink[r].state = "returned" /\ ~SinkAppended(r) /\ sink[r].def = "api"
    /\ env.credentials = "full" /\ env.spreadsheetId = "unset"
    /\ "Missing spreadsheet ID" \in log[r]

\* the sink is configured and every call of it so far has appended its row
SinkSucceeding ==
  env.credentials = "full" /\ env.spreadsheetId = "set" /\ sinkTrouble = 0

\* C10: with a configured, succeeding sink every verified completed delivery
\* makes one append (never more), so that once no request is in flight the
\* rows appended are as many as the verified completed deliveries
C10_OneRowPerCompletedDelivery ==
  /\ \A r \in Slots : sink[r].appends <= 1
  /\ (SinkSucceeding /\ \A r \in Slots : pc[r] \in AtRest) => rows = completedSeen

\* the request is a webhook delivery of a verified completed event
VerifiedCompleted(r) == PastVerification(r) /\ Verified(r) /\ event[r].type = Completed

\* the part of C11 about order: for a verified completed delivery the record
\* is built before the sink is called, the 200 is sent only once the sink
\* call has returned or thrown, and no delivery sends two responses
C11_AcknowledgedAfterSinkEnded ==
  \A r \in Slots :
    /\ VerifiedCompleted(r) =>
         /\ sink[r].state \in {"authenticating", "pending"} =>
              pc[r] = "Persisting" /\ response[r].sent = 0
         /\ pc[r] = "Persisting" =>
              sink[r].calls = 1 /\ formData[r] # EmptyObject /\ response[r].sent = 0
         /\ response[r].sent > 0 =>
              /\ pc[r] = "Acknowledged" /\ response[r] = Acknowledgment
              /\ sink[r].calls = 1 /\ sink[r].state \in {"returned", "thrown"}
    /\ response[r].sent <= 1

\* C11: a verified completed delivery goes Normalizing -> Persisting ->
\* Acknowledged in that order: the 200 is sent only after the sink call has
\* returned or thrown, never while it is pending, and every delivery sends
\* exactly one response, 400 or 200
C11_OrderedSingleResponse ==
  /\ C11_AcknowledgedAfterSinkEnded
  /\ \A r \in Slots :
       /\ (PastVerification(r) /\ pc[r] \in AtRest) =>
            response[r].sent = 1 /\ response[r].status \in {400, 200}
       /\ (VerifiedCompleted(r) /\ pc[r] \in AtRest) =>
            pc[r] = "Acknowledged" /\ sink[r].calls = 1

\* two requests are in flight at once, each suspended at an await
Overlap ==
  /\ pc[1] \in {"Persisting", "CreatingSession"}
  /\ pc[2] \in {"Persisting", "CreatingSession"}

\* a request that came in later is answered while the earlier one still
\* awaits the sink
AnsweredDuringAwait ==
  pc[1] = "Persisting" /\ sink[1].state = "pending" /\ pc[2] = "Acknowledged"

\* two calls of the sink are suspended at once
SinkOverlap ==
  sink[1].state \in {"authenticating", "pending"} /\ sink[2].state = "pending"

\* the call of server.js:400 ended at auth.getClient(): nothing was built or sent
LegacyClientFailure ==
  \E r \in Slots :
    /\ sink[r].def = "legacy" /\ sink[r].state = "returned"
    /\ sink[r].outcome = "authFailure" /\ sink[r].appends = 0 /\ sink[r].values = <<>>

====
